---- MODULE Spec2Model ----
(***************************************************************************)
(* Model of the parallel image filters of hucancode/concurrency (C):       *)
(*   src/c/blur.c      gaussian_blur: two parallel row-convolution phases  *)
(*                     separated by sequential transposes                  *)
(*   src/c/kuwahara.c  apply_kuwahara_filter: sequential summed-area table *)
(*                     followed by one parallel per-pixel phase            *)
(*   src/c/main.c      the caller that loads the image and dispatches      *)
(*                                                                         *)
(* One behaviour is one filter call.  The main thread advances through the *)
(* statements of the filter function (pc, i); every pthread is a record of *)
(* the threads table and advances one destination row per step.            *)
(*                                                                         *)
(* Numbers.  float is modelled in fixed point with KScale units per 1.0    *)
(* (kernel weights, convolution sums); the Kuwahara statistics are exact   *)
(* rationals kept as numerator/denominator.  A read past the end of a      *)
(* malloc'ed buffer yields an arbitrary byte, drawn from OobBytes.  The    *)
(* conversion of NaN to unsigned char is the build's choice, nan_cast.     *)
(*                                                                         *)
(* Idiom.  CHOOSE r \in {F(t) : t \in {e}} : TRUE is F(e) with e evaluated  *)
(* once: it binds the accumulator of a loop to its value.                  *)
(***************************************************************************)
EXTENDS Integers, Sequences, FiniteSets, TLC

\* ---------------------------------------------------------------- bounds
MaxWidth == 3
MaxHeight == 3
MaxRadius == 2
MaxWorkers == 3
\* the pixels of the longest single row or column filtered sequentially
WideLength == 259
\* total_samples of monte_carlo_operation goes up to MaxSamples
MaxSamples == 4

\* ------------------------------------------------------- program constants
\* RGBA: the literal 4 of every index computation
Channels == 4
\* the summed-area table holds R, G, B only
SatChannels == 3
\* fixed-point units per 1.0f
KScale == 10000
\* content of a malloc'ed byte nobody has written yet
Uninit == -1
\* the weight expf() returns for the 0/0 exponent of radius 0
NaN == -2

Bytes == 0..255
OobBytes == {0, 255}
NanCasts == {0, 255}
Ops == {"blur", "kuwahara"}
ImageKinds == {"ramp", "uniform"}

Min(a, b) == IF a < b THEN a ELSE b
Max(a, b) == IF a > b THEN a ELSE b

\* the sequence a, a+1, ..., b (empty when b < a)
SeqRange(a, b) == [j \in 1..Max(b - a + 1, 0) |-> a + j - 1]

RECURSIVE SumTo(_, _)
SumTo(s, n) == IF n = 0 THEN 0 ELSE SumTo(s, n - 1) + s[n]
SumSeq(s) == SumTo(s, Len(s))

\* ------------------------------------------------------------ Image
\* typedef struct { unsigned char* data; int width; int height; int channels; }
MkImage(data, w, h) == [data |-> data, width |-> w, height |-> h, channels |-> Channels]

\* malloc(w * h * 4): the bytes are indeterminate until written
MallocImage(w, h) == MkImage([idx \in 0..(w * h * Channels - 1) |-> Uninit], w, h)

\* the decoded RGBA buffer stbi_load hands to load_image
PixelByte(kind, idx) ==
    IF kind = "uniform" THEN CASE idx % Channels = 0 -> 100
                               [] idx % Channels = 1 -> 150
                               [] idx % Channels = 2 -> 200
                               [] OTHER -> 255
    ELSE IF kind = "white" THEN 255
    ELSE (idx * 37 + 11) % 256

load_image(kind, w, h) == MkImage([idx \in 0..(w * h * Channels - 1) |-> PixelByte(kind, idx)], w, h)

\* img->data[idx]; past the end of the allocation the byte is whatever lies there
ReadByte(image, idx, garbage) == IF idx \in DOMAIN image.data THEN image.data[idx] ELSE garbage

\* ------------------------------------------------------------ partition
\* int rows_per_worker = total / num_workers;
rows_per_worker(total, n) == total \div n

\* contexts[i].start_row = i * rows_per_worker;
StartRow(i, total, n) == i * rows_per_worker(total, n)

EndRowNoRemainder(i, total, n) == (i + 1) * rows_per_worker(total, n)

EndRowOverlap(i, total, n) == IF i = n - 1 THEN total ELSE (i + 1) * rows_per_worker(total, n) + 1

\* contexts[i].end_row = (i == num_workers - 1) ? total : (i + 1) * rows_per_worker;
EndRow(i, total, n) == IF i = n - 1 THEN total ELSE (i + 1) * rows_per_worker(total, n)

\* the rows of the half-open range [a, b)
Rows(a, b) == a..(b - 1)

\* ------------------------------------------------------------ kernel
\* expf(p/q) in fixed point, by the power series; term n is KScale*(p/q)^n/n!
RECURSIVE ExpSeries(_, _, _, _)
ExpSeries(p, q, n, term) ==
    IF term = 0 THEN 0
    ELSE term + (CHOOSE r \in {ExpSeries(p, q, n + 1, t) : t \in {(term * p) \div (q * (n + 1))}} : TRUE)

\* expf(-(x * x) / (2.0f * sigma * sigma)) with sigma = radius / 3.0f
GaussWeight(x, radius) ==
    IF radius = 0 THEN NaN
    ELSE (KScale * KScale) \div ExpSeries(9 * x * x, 2 * radius * radius, 0, KScale)

generate_gaussian_kernel_unnormalised(radius) ==
    [j \in 1..(2 * radius + 1) |-> GaussWeight((j - 1) - radius, radius)]

\* generate_gaussian_kernel: size 2*radius+1, weights divided by their sum
generate_gaussian_kernel(radius) ==
    LET size == 2 * radius + 1
        raw == [j \in 1..size |-> GaussWeight((j - 1) - radius, radius)]
        sum == SumSeq(raw)
    IN  [j \in 1..size |-> IF raw[j] = NaN THEN NaN ELSE (raw[j] * KScale) \div sum]

\* ------------------------------------------------------------ blur_horizontal
RowScheduleNoSkip(w, radius) ==
    LET lall == SeqRange(0, Min(radius, w) - 1)
        left == [j \in 1..Len(lall) |-> <<"left", lall[j]>>]
        mall == SeqRange(radius, w - radius - 1)
        mid == [j \in 1..Len(mall) |-> <<"middle", mall[j]>>]
        rall == SeqRange(Max(w - radius, 0), w - 1)
        right == [j \in 1..Len(rall) |-> <<"right", rall[j]>>]
    IN  left \o mid \o right

\* the columns one row visits, in order, each with the loop that visits it:
\*   for (x = 0; x < radius && x < src->width; x++)              left edge
\*   for (x = radius; x < src->width - radius; x++)              middle
\*   for (x = src->width - radius; x < src->width; x++)          right edge
\*       if (x < radius) continue;
RowSchedule(w, radius) ==
    LET lall == SeqRange(0, Min(radius, w) - 1)
        left == [j \in 1..Len(lall) |-> <<"left", lall[j]>>]
        mall == SeqRange(radius, w - radius - 1)
        mid == [j \in 1..Len(mall) |-> <<"middle", mall[j]>>]
        rstart == w - radius
        rall == SeqRange(rstart, w - 1)
        rkept == SelectSeq(rall, LAMBDA x : ~(x < radius))
        right == [j \in 1..Len(rkept) |-> <<"right", rkept[j]>>]
    IN  left \o mid \o right

\* int src_x = x + k - radius; with the clamp of the loop it is in
SrcX(loop, x, k, radius, w) ==
    LET src_x == x + k - radius
    IN  CASE loop = "left" -> IF src_x < 0 THEN 0 ELSE src_x
          [] loop = "middle" -> src_x
          [] OTHER -> IF src_x >= w THEN w - 1 ELSE src_x

\* int idx = (y * src->width + src_x) * 4 + ch;
SrcIdx(y, src_x, ch, w) == (y * w + src_x) * 4 + ch

\* int dst_idx = (y * dst->width + x) * 4 + ch;   (dst->channels in the right edge)
BlurDstIdx(loop, y, x, ch, dstimg) ==
    IF loop = "right" THEN (y * dstimg.width + x) * dstimg.channels + ch
    ELSE (y * dstimg.width + x) * 4 + ch

\* (unsigned char)roundf(sum)
RoundToByte(sum, nanByte) ==
    IF sum = NaN THEN nanByte ELSE ((sum + KScale \div 2) \div KScale) % 256

\* sum += src->data[idx] * kernel[k];  for k = 0 .. kernel_size - 1
Convolve(srcimg, kernel, radius, loop, y, x, ch, garbage) ==
    IF kernel[1] = NaN THEN NaN
    ELSE SumSeq([j \in 1..(2 * radius + 1) |->
            ReadByte(srcimg, SrcIdx(y, SrcX(loop, x, j - 1, radius, srcimg.width), ch, srcimg.width),
                     garbage) * kernel[j]])

\* the stores of one row of blur_horizontal, in program order: <<dst_idx, byte>>
RECURSIVE RowWritesFrom(_, _, _, _, _, _, _, _)
RowWritesFrom(srcimg, dstimg, kernel, radius, y, garbage, nanByte, sched) ==
    IF sched = << >> THEN << >>
    ELSE [j \in 1..4 |->
            <<BlurDstIdx(Head(sched)[1], y, Head(sched)[2], j - 1, dstimg),
              RoundToByte(Convolve(srcimg, kernel, radius, Head(sched)[1], y, Head(sched)[2], j - 1,
                                   garbage), nanByte)>>]
           \o RowWritesFrom(srcimg, dstimg, kernel, radius, y, garbage, nanByte, Tail(sched))

RowWrites(srcimg, dstimg, kernel, radius, y, garbage, nanByte) ==
    CHOOSE r \in {RowWritesFrom(srcimg, dstimg, kernel, radius, y, garbage, nanByte, sched) :
                    sched \in {RowSchedule(srcimg.width, radius)}} : TRUE

\* the loads of one row of blur_horizontal: [x, k, ch, idx]
RowTaps(srcimg, radius, y) ==
    UNION {{[x |-> sched[j][2], k |-> k, ch |-> ch,
             idx |-> SrcIdx(y, SrcX(sched[j][1], sched[j][2], k, radius, srcimg.width), ch, srcimg.width)] :
               j \in 1..Len(sched), k \in 0..(2 * radius), ch \in 0..3} :
             sched \in {RowSchedule(srcimg.width, radius)}}

\* data after the stores ws, applied in order: the last store to an index stays
\* (a store outside the buffer is dropped)
LastStores(data, ws) ==
    [idx \in DOMAIN data |->
        LET hits == {j \in 1..Len(ws) : ws[j][1] = idx}
        IN  IF hits = {} THEN data[idx]
            ELSE ws[CHOOSE j \in hits : \A j2 \in hits : j2 <= j][2]]

Store(data, ws) == CHOOSE f \in {LastStores(data, v) : v \in {ws}} : TRUE

\* ------------------------------------------------------------ transpose_image
TransposeDstIdxByWidth(y, x, ch, srcimg) == (x * srcimg.width + y) * 4 + ch

\* int dst_idx = (x * src->height + y) * 4 + ch;
TransposeDstIdx(y, x, ch, srcimg) == (x * srcimg.height + y) * 4 + ch

\* int src_idx = (y * src->width + x) * 4 + ch;
TransposeSrcIdx(y, x, ch, srcimg) == (y * srcimg.width + x) * 4 + ch

\* dst->data[dst_idx] = src->data[src_idx]; for y, x, ch in loop order: <<dst_idx, byte>>
TransposeWrites(srcimg) ==
    [j \in 1..(srcimg.height * srcimg.width * 4) |->
        LET y == (j - 1) \div (srcimg.width * 4)
            x == ((j - 1) \div 4) % srcimg.width
            ch == (j - 1) % 4
        IN  <<TransposeDstIdx(y, x, ch, srcimg), srcimg.data[TransposeSrcIdx(y, x, ch, srcimg)]>>]

transpose_image(srcimg, dstimg) == [dstimg EXCEPT !.data = Store(dstimg.data, TransposeWrites(srcimg))]

\* ------------------------------------------------------------ IntegralImage
\* calloc((width + 1) * (height + 1) * 3, sizeof(float)) for sum and for sum_sq
create_integral_image(w, h) ==
    [sum |-> [idx \in 0..((w + 1) * (h + 1) * SatChannels - 1) |-> 0],
     sum_sq |-> [idx \in 0..((w + 1) * (h + 1) * SatChannels - 1) |-> 0],
     width |-> w, height |-> h]

\* float: the table cells hold whole numbers, kept exactly up to 24 bits and rounded
\* to the nearest multiple of the unit in the last place (ties to even) above that
FloatMantissa == 16777216

FloatUlp(a) ==
    CHOOSE u \in {2 ^ k : k \in 0..7} :
      /\ a \div u < FloatMantissa
      /\ u = 1 \/ a \div (u \div 2) >= FloatMantissa

\* the float nearest to the whole number n
RoundToFloat(n) ==
    CHOOSE r \in
      {IF a < FloatMantissa THEN n
       ELSE LET u == FloatUlp(a)
                q == a \div u
                rem == a % u
                up == (2 * rem > u) \/ (2 * rem = u /\ q % 2 = 1)
            IN  (IF n < 0 THEN 0 - 1 ELSE 1) * (IF up THEN q + 1 ELSE q) * u :
         a \in {IF n < 0 THEN 0 - n ELSE n}} : TRUE

\* int idx = (y * iw + x) * 3 + ch;
SatIdx(y, x, ch, iw) == (y * iw + x) * 3 + ch

\* one iteration of the innermost loop of build_integral_images
BuildCell(srcimg, integral, y, x, ch) ==
    LET w == srcimg.width
        iw == integral.width + 1
        val == srcimg.data[((y - 1) * w + (x - 1)) * 4 + ch]
        idx == SatIdx(y, x, ch, iw)
        idx_up == SatIdx(y - 1, x, ch, iw)
        idx_left == SatIdx(y, x - 1, ch, iw)
        idx_diag == SatIdx(y - 1, x - 1, ch, iw)
    IN  [integral EXCEPT
            !.sum[idx] = RoundToFloat(RoundToFloat(RoundToFloat(val + integral.sum[idx_up])
                                                     + integral.sum[idx_left])
                                        - integral.sum[idx_diag]),
            !.sum_sq[idx] = RoundToFloat(RoundToFloat(RoundToFloat(val * val + integral.sum_sq[idx_up])
                                                        + integral.sum_sq[idx_left])
                                           - integral.sum_sq[idx_diag])]

\* the loops of build_integral_images from iteration n on (y, then x, then ch)
RECURSIVE BuildFrom(_, _, _)
BuildFrom(srcimg, integral, n) ==
    LET w == srcimg.width
        h == srcimg.height
    IN  IF n >= h * w * 3 THEN integral
        ELSE CHOOSE r \in
               {BuildFrom(srcimg, t, n + 1) :
                  t \in {BuildCell(srcimg, integral, (n \div (w * 3)) + 1, ((n \div 3) % w) + 1, n % 3)}} :
               TRUE

build_integral_images(srcimg, integral) == BuildFrom(srcimg, integral, 0)

\* ------------------------------------------------------------ get_region_stats
\* a float kept exactly: num/den, or FLT_MAX
Rat(num, den) == [num |-> num, den |-> den, max |-> FALSE]
FLT_MAX == [num |-> 0, den |-> 1, max |-> TRUE]
RatAdd(a, b) ==
    CHOOSE r \in {IF u.max \/ v.max THEN FLT_MAX
                  ELSE IF u.den = v.den THEN Rat(u.num + v.num, u.den)
                  ELSE Rat(u.num * v.den + v.num * u.den, u.den * v.den) : u \in {a}, v \in {b}} : TRUE
RECURSIVE Gcd(_, _)
Gcd(a, b) == IF b = 0 THEN a ELSE CHOOSE r \in {Gcd(b, m) : m \in {a % b}} : TRUE
\* a < b and a <= b, compared over the common denominator
RatLess(a, b) ==
    \E u \in {a}, v \in {b} :
      IF u.max THEN FALSE ELSE IF v.max THEN TRUE
      ELSE \E g \in {Gcd(u.den, v.den)} : u.num * (v.den \div g) < v.num * (u.den \div g)
RatLeq(a, b) ==
    \E u \in {a}, v \in {b} :
      IF v.max THEN TRUE ELSE IF u.max THEN FALSE
      ELSE \E g \in {Gcd(u.den, v.den)} : u.num * (v.den \div g) <= v.num * (u.den \div g)

\* the rectangle after the four clamps and the ++ of get_region_stats
ClampRegion(integral, x1, y1, x2, y2) ==
    [x1 |-> (IF x1 < 0 THEN 0 ELSE x1) + 1,
     y1 |-> (IF y1 < 0 THEN 0 ELSE y1) + 1,
     x2 |-> (IF x2 >= integral.width THEN integral.width - 1 ELSE x2) + 1,
     y2 |-> (IF y2 >= integral.height THEN integral.height - 1 ELSE y2) + 1]

\* idx_br, idx_bl, idx_tr, idx_tl
RegionIdx(integral, x1, y1, x2, y2, channel) ==
    LET iw == integral.width + 1
        c == ClampRegion(integral, x1, y1, x2, y2)
    IN  [br |-> (c.y2 * iw + c.x2) * 3 + channel,
         bl |-> (c.y2 * iw + c.x1 - 1) * 3 + channel,
         tr |-> ((c.y1 - 1) * iw + c.x2) * 3 + channel,
         tl |-> ((c.y1 - 1) * iw + c.x1 - 1) * 3 + channel]

\* get_region_stats: sum, sum_sq, area, *mean and *variance of one channel
get_region_stats(integral, x1, y1, x2, y2, channel) ==
    CHOOSE r \in
      {LET sum == RoundToFloat(RoundToFloat(RoundToFloat(integral.sum[ix.br] - integral.sum[ix.bl])
                                              - integral.sum[ix.tr])
                                 + integral.sum[ix.tl])
           sum_sq == RoundToFloat(RoundToFloat(RoundToFloat(integral.sum_sq[ix.br]
                                                              - integral.sum_sq[ix.bl])
                                                 - integral.sum_sq[ix.tr])
                                    + integral.sum_sq[ix.tl])
           area == (c.x2 - c.x1 + 1) * (c.y2 - c.y1 + 1)
           vnum == sum_sq * area - sum * sum
       IN  [sum |-> sum, sum_sq |-> sum_sq, area |-> area,
            mean |-> IF area > 0 THEN Rat(sum, area) ELSE Rat(0, 1),
            variance |-> IF area > 0
                         THEN (IF vnum < 0 THEN Rat(0, area * area) ELSE Rat(vnum, area * area))
                         ELSE Rat(0, 1)] :
         c \in {ClampRegion(integral, x1, y1, x2, y2)},
         ix \in {RegionIdx(integral, x1, y1, x2, y2, channel)}} : TRUE

\* ------------------------------------------------------------ kuwahara_filter_pixel
\* int quadrants[4][4]: NW, NE, SW, SE as x1, y1, x2, y2
Quadrants(x, y, radius) ==
    << <<x - radius, y - radius, x, y>>,
       <<x, y - radius, x + radius, y>>,
       <<x - radius, y, x, y + radius>>,
       <<x, y, x + radius, y + radius>> >>

\* mean[ch], variance[ch] and total_variance of quadrant q (1..4)
QuadrantStats(integral, x, y, radius, q) ==
    LET quad == Quadrants(x, y, radius)[q]
    IN  CHOOSE r \in
          {[mean |-> [ch \in 0..2 |-> st[ch + 1].mean],
            variance |-> [ch \in 0..2 |-> st[ch + 1].variance],
            total_variance |-> RatAdd(RatAdd(RatAdd(Rat(0, 1), st[1].variance), st[2].variance),
                                      st[3].variance)] :
             st \in {<<get_region_stats(integral, quad[1], quad[2], quad[3], quad[4], 0),
                       get_region_stats(integral, quad[1], quad[2], quad[3], quad[4], 1),
                       get_region_stats(integral, quad[1], quad[2], quad[3], quad[4], 2)>>}} : TRUE

ReplacesBestOrEqual(total_variance, min_variance) ==
    RatLeq(total_variance, RatAdd(RatAdd(min_variance[0], min_variance[1]), min_variance[2]))

\* if (total_variance < min_variance[0] + min_variance[1] + min_variance[2])
ReplacesBest(total_variance, min_variance) ==
    RatLess(total_variance, RatAdd(RatAdd(min_variance[0], min_variance[1]), min_variance[2]))

\* the loop over q = 0..3, from quadrant q on; selected records which q last replaced the best
RECURSIVE SelectFrom(_, _, _, _, _, _)
SelectFrom(integral, x, y, radius, q, best) ==
    IF q > 4 THEN best
    ELSE CHOOSE r \in
           {SelectFrom(integral, x, y, radius, q + 1, b) :
              b \in {IF ReplacesBest(s.total_variance, best.min_variance)
                     THEN [min_variance |-> s.variance, best_mean |-> s.mean, selected |-> q]
                     ELSE best :
                       s \in {QuadrantStats(integral, x, y, radius, q)}}} : TRUE

\* float min_variance[3] = {FLT_MAX, ...}; float best_mean[3] = {0, 0, 0};
SelectQuadrant(integral, x, y, radius) ==
    SelectFrom(integral, x, y, radius, 1,
               [min_variance |-> [ch \in 0..2 |-> FLT_MAX],
                best_mean |-> [ch \in 0..2 |-> Rat(0, 1)],
                selected |-> 0])

\* (unsigned char)fminf(255.0f, fmaxf(0.0f, best_mean[ch]))
MeanToByte(m) ==
    LET t == m.num \div m.den
    IN  IF m.num < 0 THEN 0 ELSE IF t > 255 THEN 255 ELSE t

\* int dst_idx = (y * dst->width + x) * 4;
KuwaharaDstIdx(y, x, dstimg) == (y * dstimg.width + x) * 4

PixelWritesOpaqueAlpha(srcimg, dstimg, integral, x, y, radius) ==
    LET dst_idx == KuwaharaDstIdx(y, x, dstimg)
    IN  CHOOSE r \in
          {[j \in 1..4 |->
              IF j <= 3 THEN <<dst_idx + (j - 1), MeanToByte(best.best_mean[j - 1])>>
              ELSE <<dst_idx + 3, 255>>] :
             best \in {SelectQuadrant(integral, x, y, radius)}} : TRUE

\* the four stores of kuwahara_filter_pixel: <<dst_idx + ch, byte>>
PixelWrites(srcimg, dstimg, integral, x, y, radius) ==
    LET dst_idx == KuwaharaDstIdx(y, x, dstimg)
    IN  CHOOSE r \in
          {[j \in 1..4 |->
              IF j <= 3 THEN <<dst_idx + (j - 1), MeanToByte(best.best_mean[j - 1])>>
              ELSE <<dst_idx + 3, srcimg.data[(y * srcimg.width + x) * 4 + 3]>>] :
             best \in {SelectQuadrant(integral, x, y, radius)}} : TRUE

\* the table cells kuwahara_filter_pixel loads
PixelSatReads(integral, x, y, radius) ==
    UNION {LET quad == Quadrants(x, y, radius)[q]
               ix == RegionIdx(integral, quad[1], quad[2], quad[3], quad[4], ch)
           IN  {ix.br, ix.bl, ix.tr, ix.tl} : q \in 1..4, ch \in 0..2}

\* the stores of one iteration of kuwahara_worker's loop over y, from column x on
RECURSIVE KuwaharaRowWritesFrom(_, _, _, _, _, _)
KuwaharaRowWritesFrom(srcimg, dstimg, integral, y, radius, x) ==
    IF ~(x < srcimg.width) THEN << >>
    ELSE PixelWrites(srcimg, dstimg, integral, x, y, radius)
           \o KuwaharaRowWritesFrom(srcimg, dstimg, integral, y, radius, x + 1)

KuwaharaRowWrites(srcimg, dstimg, integral, y, radius) ==
    KuwaharaRowWritesFrom(srcimg, dstimg, integral, y, radius, 0)

\* ------------------------------------------------------------ state
VARIABLES
    operation,    \* argv[1]: "blur" or "kuwahara"
    radius,       \* argv[4]
    num_workers,  \* argv[5]
    nan_cast,     \* what (unsigned char)NaN yields in this build
    img,          \* the Image structs: src, dst, temp1, temp2, temp3
    kernel,       \* float* kernel of gaussian_blur
    integral,     \* IntegralImage* integral of apply_kuwahara_filter
    heap,         \* the temporaries of the call: "none", "live" or "freed"
    pc,           \* the statement the main thread is at
    i,            \* the loop counter of the main thread
    threads,      \* every pthread of the call, by <<phase, index>>
    mc            \* monte_carlo_operation: its parameters, locals, ThreadData array and threads

vars == <<operation, radius, num_workers, nan_cast, img, kernel, integral, heap, pc, i, threads,
          mc>>

Phases == {1, 2}
Slots == 0..MaxWorkers
Temporaries == {"temp1", "temp2", "temp3", "kernel", "threads", "contexts", "integral"}

NoImage == MkImage(<< >>, 0, 0)
NoIntegral == [sum |-> << >>, sum_sq |-> << >>, width |-> 0, height |-> 0]

\* a slot of the threads array no pthread_create has filled
NoThread ==
    [st |-> "none", src |-> "", dst |-> "", start_row |-> 0, end_row |-> 0, y |-> 0,
     rd |-> {}, wr |-> {}, taps |-> {}, joined |-> FALSE]

\* monte_carlo_operation is not called
NoMonteCarlo ==
    [total_samples |-> 0, total_inside |-> 0, thread_data |-> << >>, workers |-> << >>,
     allocated |-> {}]

NewThreadInPlace(srcname, dstname, start_row, end_row) ==
    [st |-> "running", src |-> srcname, dst |-> srcname, start_row |-> start_row,
     end_row |-> end_row, y |-> start_row, rd |-> {}, wr |-> {}, taps |-> {}, joined |-> FALSE]

\* pthread_create(&threads[i], NULL, worker, &contexts[i]) with the contexts[i] just filled
NewThread(srcname, dstname, start_row, end_row) ==
    [st |-> "running", src |-> srcname, dst |-> dstname, start_row |-> start_row,
     end_row |-> end_row, y |-> start_row, rd |-> {}, wr |-> {}, taps |-> {}, joined |-> FALSE]

\* main(): the image is loaded, dst is allocated with the same size, nothing is called yet
Init ==
    /\ operation \in Ops
    /\ radius \in 0..MaxRadius
    /\ num_workers \in 1..MaxWorkers
    /\ nan_cast \in (IF operation = "blur" /\ radius = 0 THEN NanCasts ELSE {0})
    /\ \E kind \in ImageKinds, w \in 1..MaxWidth, h \in 1..MaxHeight :
         img = [name \in {"src", "dst", "temp1", "temp2", "temp3"} |->
                 CASE name = "src" -> load_image(kind, w, h)
                   [] name = "dst" -> MallocImage(w, h)
                   [] OTHER -> NoImage]
    /\ kernel = << >>
    /\ integral = NoIntegral
    /\ heap = [t \in Temporaries |-> "none"]
    /\ pc = "main"
    /\ i = 0
    /\ threads = [t \in Phases \X Slots |-> NoThread]
    /\ mc = NoMonteCarlo

\* ------------------------------------------------------------ loop conditions
Phase1JoinCondShort(j) == j < num_workers - 1
Phase2JoinCondShort(j) == j < num_workers - 1
KuwaharaJoinCondShort(j) == j < num_workers - 1
KuwaharaJoinCondLong(j) == j <= num_workers

Phase2CreateCondShort(j) == j < num_workers - 1

\* for (int i = 0; i < num_workers; i++) of each create and join loop
Phase1CreateCond(j) == j < num_workers
Phase1JoinCond(j) == j < num_workers
Phase2CreateCond(j) == j < num_workers
Phase2JoinCond(j) == j < num_workers
KuwaharaCreateCond(j) == j < num_workers
KuwaharaJoinCond(j) == j < num_workers

\* where control goes when a loop is reached with its condition c: the body or past it
Loop(c, body, exit) == IF c THEN body ELSE exit

\* ------------------------------------------------------------ gaussian_blur
\* main() calls gaussian_blur: kernel, temp1, temp2, threads, contexts are allocated
CallGaussianBlur ==
    /\ pc = "main"
    /\ operation = "blur"
    /\ kernel' = generate_gaussian_kernel(radius)
    /\ img' = [img EXCEPT !["temp1"] = MallocImage(img["src"].width, img["src"].height),
                          !["temp2"] = MallocImage(img["src"].height, img["src"].width)]
    /\ heap' = [heap EXCEPT !["kernel"] = "live", !["temp1"] = "live", !["temp2"] = "live",
                            !["threads"] = "live", !["contexts"] = "live"]
    /\ pc' = Loop(Phase1CreateCond(0), "p1_create", Loop(Phase1JoinCond(0), "p1_join", "transpose1"))
    /\ i' = 0
    /\ UNCHANGED <<operation, radius, num_workers, nan_cast, integral, threads, mc>>

\* Phase 1, one iteration of the create loop: rows of src into temp1, split by height
Phase1Create ==
    /\ pc = "p1_create"
    /\ threads' = [threads EXCEPT ![<<1, i>>] =
                     NewThread("src", "temp1", StartRow(i, img["src"].height, num_workers),
                               EndRow(i, img["src"].height, num_workers))]
    /\ IF Phase1CreateCond(i + 1)
       THEN /\ i' = i + 1
            /\ pc' = pc
       ELSE /\ i' = 0
            /\ pc' = Loop(Phase1JoinCond(0), "p1_join", "transpose1")
    /\ UNCHANGED <<operation, radius, num_workers, nan_cast, img, kernel, integral, heap, mc>>

\* pthread_join(threads[i], NULL) returns once thread i of the phase has terminated
JoinReturns(p, j) == threads[<<p, j>>].st = "exited"

Phase1Join ==
    /\ pc = "p1_join"
    /\ JoinReturns(1, i)
    /\ threads' = [threads EXCEPT ![<<1, i>>].joined = TRUE]
    /\ IF Phase1JoinCond(i + 1)
       THEN /\ i' = i + 1
            /\ pc' = pc
       ELSE /\ i' = 0
            /\ pc' = "transpose1"
    /\ UNCHANGED <<operation, radius, num_workers, nan_cast, img, kernel, integral, heap, mc>>

\* transpose_image(&temp1, &temp2); then temp3 is allocated
Transpose1 ==
    /\ pc = "transpose1"
    /\ img' = [img EXCEPT !["temp2"] = transpose_image(img["temp1"], img["temp2"]),
                          !["temp3"] = MallocImage(img["src"].height, img["src"].width)]
    /\ heap' = [heap EXCEPT !["temp3"] = "live"]
    /\ pc' = Loop(Phase2CreateCond(0), "p2_create", Loop(Phase2JoinCond(0), "p2_join", "transpose2"))
    /\ i' = 0
    /\ UNCHANGED <<operation, radius, num_workers, nan_cast, kernel, integral, threads, mc>>

\* Phase 2, one iteration of the create loop: rows of temp2 into temp3, split by width
Phase2Create ==
    /\ pc = "p2_create"
    /\ threads' = [threads EXCEPT ![<<2, i>>] =
                     NewThread("temp2", "temp3", StartRow(i, img["src"].width, num_workers),
                               EndRow(i, img["src"].width, num_workers))]
    /\ IF Phase2CreateCond(i + 1)
       THEN /\ i' = i + 1
            /\ pc' = pc
       ELSE /\ i' = 0
            /\ pc' = Loop(Phase2JoinCond(0), "p2_join", "transpose2")
    /\ UNCHANGED <<operation, radius, num_workers, nan_cast, img, kernel, integral, heap, mc>>

Phase2Join ==
    /\ pc = "p2_join"
    /\ JoinReturns(2, i)
    /\ threads' = [threads EXCEPT ![<<2, i>>].joined = TRUE]
    /\ IF Phase2JoinCond(i + 1)
       THEN /\ i' = i + 1
            /\ pc' = pc
       ELSE /\ i' = 0
            /\ pc' = "transpose2"
    /\ UNCHANGED <<operation, radius, num_workers, nan_cast, img, kernel, integral, heap, mc>>

\* transpose_image(&temp3, dst)
Transpose2 ==
    /\ pc = "transpose2"
    /\ img' = [img EXCEPT !["dst"] = transpose_image(img["temp3"], img["dst"])]
    /\ pc' = "cleanup"
    /\ UNCHANGED <<operation, radius, num_workers, nan_cast, kernel, integral, heap, i, threads, mc>>

\* free(p): a live allocation is released; releasing it again, or releasing what was
\* never allocated, is recorded as such
Released(state) ==
    CASE state = "live" -> "freed"
      [] state = "freed" -> "freed twice"
      [] OTHER -> "invalid free"

\* the calls of free in names, in order
RECURSIVE FreeEach(_, _)
FreeEach(h, names) ==
    IF names = << >> THEN h
    ELSE FreeEach([h EXCEPT ![Head(names)] = Released(h[Head(names)])], Tail(names))

BlurFreesTemp1Twice == <<"temp1", "temp1", "temp3", "kernel", "threads", "contexts">>

\* free(temp1.data); free(temp2.data); free(temp3.data); free(kernel); free(threads);
\* free(contexts);
BlurFrees == <<"temp1", "temp2", "temp3", "kernel", "threads", "contexts">>

\* free(threads); free(contexts); free_integral_image(integral);
KuwaharaFrees == <<"threads", "contexts", "integral">>

\* free(temp1.data) ... free(contexts); gaussian_blur returns
BlurCleanup ==
    /\ pc = "cleanup"
    /\ heap' = FreeEach(heap, BlurFrees)
    /\ pc' = "done"
    /\ UNCHANGED <<operation, radius, num_workers, nan_cast, img, kernel, integral, i, threads, mc>>

\* the row y reads past the end of its source buffer
RowReadsPastEnd(srcimg, y) == \E t \in RowTaps(srcimg, radius, y) : t.idx \notin DOMAIN srcimg.data

\* worker_thread: one iteration of the loop over y of blur_horizontal
BlurRow(p, w) ==
    LET t == threads[<<p, w>>]
        srcimg == img[t.src]
        dstimg == img[t.dst]
    IN  /\ operation = "blur"
        /\ t.st = "running"
        /\ t.y < t.end_row
        /\ \E garbage \in (IF RowReadsPastEnd(srcimg, t.y) THEN OobBytes ELSE {0}) :
           \E ws \in {RowWrites(srcimg, dstimg, kernel, radius, t.y, garbage, nan_cast)} :
           \E taps \in {RowTaps(srcimg, radius, t.y)} :
             /\ img' = [img EXCEPT ![t.dst].data = Store(dstimg.data, ws)]
             /\ threads' = [threads EXCEPT ![<<p, w>>] =
                              [t EXCEPT !.y = t.y + 1,
                                        !.rd = t.rd \cup {<<t.src, tp.idx>> : tp \in taps},
                                        !.wr = t.wr \cup {<<t.dst, ws[j][1]>> : j \in 1..Len(ws)},
                                        !.taps = {[y |-> t.y, x |-> tp.x, k |-> tp.k,
                                                   ch |-> tp.ch, idx |-> tp.idx] : tp \in taps}]]
        /\ UNCHANGED <<operation, radius, num_workers, nan_cast, kernel, integral, heap, pc, i, mc>>

\* the worker function returns: the thread terminates
WorkerExit(p, w) ==
    /\ threads[<<p, w>>].st = "running"
    /\ ~(threads[<<p, w>>].y < threads[<<p, w>>].end_row)
    /\ threads' = [threads EXCEPT ![<<p, w>>].st = "exited"]
    /\ UNCHANGED <<operation, radius, num_workers, nan_cast, img, kernel, integral, heap, pc, i, mc>>

\* ------------------------------------------------------------ apply_kuwahara_filter
\* main() calls apply_kuwahara_filter: create_integral_image(src->width, src->height)
CallKuwahara ==
    /\ pc = "main"
    /\ operation = "kuwahara"
    /\ integral' = create_integral_image(img["src"].width, img["src"].height)
    /\ heap' = [heap EXCEPT !["integral"] = "live"]
    /\ pc' = "k_build"
    /\ UNCHANGED <<operation, radius, num_workers, nan_cast, img, kernel, i, threads, mc>>

\* build_integral_images(src, integral); then threads and contexts are allocated
BuildIntegral ==
    /\ pc = "k_build"
    /\ integral' = build_integral_images(img["src"], integral)
    /\ heap' = [heap EXCEPT !["threads"] = "live", !["contexts"] = "live"]
    /\ pc' = Loop(KuwaharaCreateCond(0), "k_create", Loop(KuwaharaJoinCond(0), "k_join", "k_cleanup"))
    /\ i' = 0
    /\ UNCHANGED <<operation, radius, num_workers, nan_cast, img, kernel, threads, mc>>

\* one iteration of the create loop: rows of src into dst, split by height
KuwaharaCreate ==
    /\ pc = "k_create"
    /\ threads' = [threads EXCEPT ![<<1, i>>] =
                     NewThread("src", "dst", StartRow(i, img["src"].height, num_workers),
                               EndRow(i, img["src"].height, num_workers))]
    /\ IF KuwaharaCreateCond(i + 1)
       THEN /\ i' = i + 1
            /\ pc' = pc
       ELSE /\ i' = 0
            /\ pc' = Loop(KuwaharaJoinCond(0), "k_join", "k_cleanup")
    /\ UNCHANGED <<operation, radius, num_workers, nan_cast, img, kernel, integral, heap, mc>>

KuwaharaJoin ==
    /\ pc = "k_join"
    /\ JoinReturns(1, i)
    /\ threads' = [threads EXCEPT ![<<1, i>>].joined = TRUE]
    /\ IF KuwaharaJoinCond(i + 1)
       THEN /\ i' = i + 1
            /\ pc' = pc
       ELSE /\ i' = 0
            /\ pc' = "k_cleanup"
    /\ UNCHANGED <<operation, radius, num_workers, nan_cast, img, kernel, integral, heap, mc>>

\* free(threads); free(contexts); free_integral_image(integral); the call returns
KuwaharaCleanup ==
    /\ pc = "k_cleanup"
    /\ heap' = FreeEach(heap, KuwaharaFrees)
    /\ pc' = "done"
    /\ UNCHANGED <<operation, radius, num_workers, nan_cast, img, kernel, integral, i, threads, mc>>

\* kuwahara_worker: one iteration of the loop over y (every x of the row)
KuwaharaRow(p, w) ==
    LET t == threads[<<p, w>>]
        srcimg == img[t.src]
        dstimg == img[t.dst]
    IN  /\ operation = "kuwahara"
        /\ t.st = "running"
        /\ t.y < t.end_row
        /\ \E ws \in {KuwaharaRowWrites(srcimg, dstimg, integral, t.y, radius)} :
             /\ img' = [img EXCEPT ![t.dst].data = Store(dstimg.data, ws)]
             /\ threads' = [threads EXCEPT ![<<p, w>>] =
                              [t EXCEPT !.y = t.y + 1,
                                        !.rd = t.rd
                                               \cup {<<"integral", c>> :
                                                       c \in UNION {PixelSatReads(integral, x, t.y, radius) :
                                                                      x \in 0..(srcimg.width - 1)}}
                                               \cup {<<t.src, (t.y * srcimg.width + x) * 4 + 3>> :
                                                       x \in 0..(srcimg.width - 1)},
                                        !.wr = t.wr \cup {<<t.dst, ws[j][1]>> : j \in 1..Len(ws)}]]
        /\ UNCHANGED <<operation, radius, num_workers, nan_cast, kernel, integral, heap, pc, i, mc>>

\* ------------------------------------------------------------ specification
MainStep ==
    \/ CallGaussianBlur
    \/ Phase1Create
    \/ Phase1Join
    \/ Transpose1
    \/ Phase2Create
    \/ Phase2Join
    \/ Transpose2
    \/ BlurCleanup
    \/ CallKuwahara
    \/ BuildIntegral
    \/ KuwaharaCreate
    \/ KuwaharaJoin
    \/ KuwaharaCleanup

WorkerStep(p, w) ==
    \/ BlurRow(p, w)
    \/ KuwaharaRow(p, w)
    \/ WorkerExit(p, w)

Next ==
    \/ MainStep
    \/ \E p \in Phases, w \in Slots : WorkerStep(p, w)

Spec == Init /\ [][Next]_vars

\* the scheduler keeps running some thread that can take a step: the main thread
\* when no worker can, a worker while the main thread is blocked in pthread_join
FairSpec == Spec /\ WF_vars(Next)

\* ------------------------------------------------------------ thread-creation failure
\* the phases the call runs
PhasesOf(op) == IF op = "blur" THEN {1, 2} ELSE {1}

\* the statement of the create loop, of the join loop and after the join loop of phase p
CreatePc(p) == IF operation = "kuwahara" THEN "k_create" ELSE IF p = 1 THEN "p1_create" ELSE "p2_create"
JoinPc(p) == IF operation = "kuwahara" THEN "k_join" ELSE IF p = 1 THEN "p1_join" ELSE "p2_join"
AfterJoinPc(p) == IF operation = "kuwahara" THEN "k_cleanup" ELSE IF p = 1 THEN "transpose1" ELSE "transpose2"

\* the row count phase p of the call splits among its workers
PhaseRows(p) == IF operation = "blur" /\ p = 2 THEN img["src"].width ELSE img["src"].height

\* pthread_create fails: contexts[i] is filled, no thread runs, threads[i] is not set;
\* the return value is ignored and the loop goes on
CreateFails ==
    \E p \in PhasesOf(operation) :
      /\ pc = CreatePc(p)
      /\ threads' = [threads EXCEPT ![<<p, i>>] =
                       [NoThread EXCEPT !.st = "failed",
                                        !.start_row = StartRow(i, PhaseRows(p), num_workers),
                                        !.end_row = EndRow(i, PhaseRows(p), num_workers),
                                        !.y = StartRow(i, PhaseRows(p), num_workers)]]
      /\ IF i + 1 < num_workers
         THEN /\ i' = i + 1
              /\ pc' = pc
         ELSE /\ i' = 0
              /\ pc' = JoinPc(p)
      /\ UNCHANGED <<operation, radius, num_workers, nan_cast, img, kernel, integral, heap, mc>>

\* pthread_join on a threads[i] no pthread_create has set: the behaviour is undefined;
\* the call returns an error that is ignored, or the process dies
JoinFails ==
    \E p \in PhasesOf(operation) :
      /\ pc = JoinPc(p)
      /\ threads[<<p, i>>].st = "failed"
      /\ \/ /\ threads' = [threads EXCEPT ![<<p, i>>].joined = TRUE]
            /\ IF i + 1 < num_workers
               THEN /\ i' = i + 1
                    /\ pc' = pc
               ELSE /\ i' = 0
                    /\ pc' = AfterJoinPc(p)
         \/ /\ pc' = "crashed"
            /\ UNCHANGED <<threads, i, mc>>
      /\ UNCHANGED <<operation, radius, num_workers, nan_cast, img, kernel, integral, heap, mc>>

FailNext ==
    \/ Next
    \/ CreateFails
    \/ JoinFails

FailSpec == Init /\ [][FailNext]_vars

\* ------------------------------------------------------------ sequential specification
\* apply_kuwahara_filter followed statement by statement on one thread, on images up
\* to WideLength pixels long: the table is built one cell at a time and
\* kuwahara_filter_pixel is then applied to one pixel.
TableKinds == {"white", "uniform", "ramp"}
TableSizes == {<<MaxWidth, MaxHeight>>, <<WideLength, 1>>, <<1, WideLength>>, <<1, 1>>}

TableInit ==
    /\ operation = "kuwahara"
    /\ radius = 0
    /\ num_workers = 1
    /\ nan_cast = 0
    /\ \E kind \in TableKinds, d \in TableSizes :
         img = [name \in {"src", "dst", "temp1", "temp2", "temp3"} |->
                 CASE name = "src" -> load_image(kind, d[1], d[2])
                   [] name = "dst" -> MallocImage(d[1], d[2])
                   [] OTHER -> NoImage]
    /\ kernel = << >>
    /\ integral = NoIntegral
    /\ heap = [t \in Temporaries |-> "none"]
    /\ pc = "main"
    /\ i = 0
    /\ threads = [t \in Phases \X Slots |-> NoThread]
    /\ mc = NoMonteCarlo

\* one iteration of the innermost loop of build_integral_images; i counts them
TableBuildCell ==
    LET w == img["src"].width
        h == img["src"].height
    IN  /\ pc = "k_build"
        /\ i < h * w * 3
        /\ integral' = BuildCell(img["src"], integral, (i \div (w * 3)) + 1, ((i \div 3) % w) + 1, i % 3)
        /\ i' = i + 1
        /\ UNCHANGED <<operation, radius, num_workers, nan_cast, img, kernel, heap, pc, threads, mc>>

\* kuwahara_filter_pixel(src, dst, integral, x, y, radius) on the finished table;
\* i keeps the pixel, y * width + x
TableFilterPixel ==
    LET w == img["src"].width
        h == img["src"].height
    IN  /\ pc = "k_build"
        /\ i = h * w * 3
        /\ \E r \in 0..MaxRadius, x \in 0..(w - 1), y \in 0..(h - 1) :
             \E ws \in {PixelWrites(img["src"], img["dst"], integral, x, y, r)} :
               /\ img' = [img EXCEPT !["dst"].data = Store(img["dst"].data, ws)]
               /\ radius' = r
               /\ i' = y * w + x
        /\ pc' = "k_pixel"
        /\ UNCHANGED <<operation, num_workers, nan_cast, kernel, integral, heap, threads, mc>>

TableNext ==
    \/ CallKuwahara
    \/ TableBuildCell
    \/ TableFilterPixel

TableSpec == TableInit /\ [][TableNext]_vars

\* ------------------------------------------------------------ vocabulary of the properties
Width == img["src"].width
Height == img["src"].height

\* the row count a phase splits: blur phase 2 splits the (original) width
TotalRows(p) == IF operation = "blur" /\ p = 2 THEN Width ELSE Height

Workers == 0..(num_workers - 1)
Created(p) == \A w \in Workers : threads[<<p, w>>].st # "none"
AllExited(p) == \A w \in Workers : threads[<<p, w>>].st = "exited"
AllJoined(p) == \A w \in Workers : threads[<<p, w>>].joined

\* image[row, col, ch] of a row-major RGBA buffer
PixelAt(image, row, col, ch) == image.data[(row * image.width + col) * 4 + ch]

Clamp(v, lo, hi) == IF v < lo THEN lo ELSE IF v > hi THEN hi ELSE v

PairwiseDisjoint(parts, n) ==
    \A a, b \in 0..(n - 1) : a # b => parts[a] \cap parts[b] = {}

\* parts[0..n-1] are disjoint, cover exactly [0, total), and the last is a largest one
ExactCover(parts, total, n) ==
    /\ PairwiseDisjoint(parts, n)
    /\ UNION {parts[a] : a \in 0..(n - 1)} = 0..(total - 1)
    /\ \A a \in 0..(n - 1) : Cardinality(parts[n - 1]) >= Cardinality(parts[a])

\* ------------------------------------------------------------ C1
\* C1: for every totalRows >= 0 and workerCount >= 1 the ranges [start_row, end_row)
\* of one phase are pairwise disjoint, cover exactly [0, totalRows), and the last range
\* is at least as large as every other; so are the ranges handed to the threads of
\* blur phase 1 (height), blur phase 2 (width) and the Kuwahara phase (height).
PartitionCoverage ==
    /\ \A total \in 0..Max(MaxWidth, MaxHeight), n \in 1..MaxWorkers :
         ExactCover([a \in 0..(n - 1) |-> Rows(StartRow(a, total, n), EndRow(a, total, n))], total, n)
    /\ \A p \in PhasesOf(operation) :
         Created(p) =>
           ExactCover([a \in Workers |-> Rows(threads[<<p, a>>].start_row, threads[<<p, a>>].end_row)],
                      TotalRows(p), num_workers)

\* phase 2 of a blur is fully spawned over a width the worker count does not divide
PartitionCoverageWitness ==
    /\ operation = "blur"
    /\ pc = "p2_join"
    /\ num_workers = 2
    /\ Width = 3
    /\ threads[<<2, 0>>].end_row = 1
    /\ threads[<<2, 1>>].start_row = 1
    /\ threads[<<2, 1>>].end_row = 3

\* ------------------------------------------------------------ C2
\* C2: in every interleaving of the workers of one phase no location is written by two
\* workers, no location written by one worker is read or written by another, and each
\* worker writes only destination rows inside its own [start_row, end_row).
RaceFreedom ==
    \A p \in Phases :
      /\ \A a, b \in Slots :
           a # b => /\ threads[<<p, a>>].wr \cap threads[<<p, b>>].wr = {}
                    /\ threads[<<p, a>>].wr \cap threads[<<p, b>>].rd = {}
      /\ \A a \in Slots :
           \A loc \in threads[<<p, a>>].wr :
             /\ loc[1] = threads[<<p, a>>].dst
             /\ loc[2] \in DOMAIN img[loc[1]].data
             /\ loc[2] \div (img[loc[1]].width * 4)
                  \in Rows(threads[<<p, a>>].start_row, threads[<<p, a>>].end_row)

\* two workers of one phase are running and both have already stored a row
RaceFreedomWitness ==
    \E p \in Phases : \E a, b \in Slots :
      /\ a # b
      /\ threads[<<p, a>>].st = "running" /\ threads[<<p, a>>].wr # {}
      /\ threads[<<p, b>>].st = "running" /\ threads[<<p, b>>].wr # {}

\* ------------------------------------------------------------ C3
\* blur_horizontal over every row, by one worker, rows in order; every read past the
\* end of the buffer yields the byte garbage
RECURSIVE AllRowWritesFrom(_, _, _, _, _, _, _)
AllRowWritesFrom(srcimg, dstimg, k, r, y, garbage, nanByte) ==
    IF ~(y < srcimg.height) THEN << >>
    ELSE RowWrites(srcimg, dstimg, k, r, y, garbage, nanByte)
           \o AllRowWritesFrom(srcimg, dstimg, k, r, y + 1, garbage, nanByte)

BlurAllRows(srcimg, dstimg, k, r, garbage, nanByte) ==
    [dstimg EXCEPT !.data = Store(dstimg.data, AllRowWritesFrom(srcimg, dstimg, k, r, 0, garbage, nanByte))]

\* the destination gaussian_blur leaves with one worker
OneWorkerBlur(srcimg, r, garbage, nanByte) ==
    LET w == srcimg.width
        h == srcimg.height
    IN  CHOOSE d \in
          {transpose_image(t3, MallocImage(w, h)) :
             t3 \in {BlurAllRows(t2, MallocImage(h, w), k, r, garbage, nanByte) :
               t2 \in {transpose_image(t1, MallocImage(h, w)) :
                 t1 \in {BlurAllRows(srcimg, MallocImage(w, h), k, r, garbage, nanByte) :
                   k \in {generate_gaussian_kernel(r)}}},
               k \in {generate_gaussian_kernel(r)}}} : TRUE

RECURSIVE AllKuwaharaWritesFrom(_, _, _, _, _)
AllKuwaharaWritesFrom(srcimg, dstimg, table, r, y) ==
    IF ~(y < srcimg.height) THEN << >>
    ELSE KuwaharaRowWrites(srcimg, dstimg, table, y, r)
           \o AllKuwaharaWritesFrom(srcimg, dstimg, table, r, y + 1)

\* the destination apply_kuwahara_filter leaves with one worker
OneWorkerKuwahara(srcimg, r) ==
    LET w == srcimg.width
        h == srcimg.height
    IN  CHOOSE d \in
          {[MallocImage(w, h) EXCEPT
              !.data = Store(MallocImage(w, h).data,
                             AllKuwaharaWritesFrom(srcimg, MallocImage(w, h), table, r, 0))] :
             table \in {build_integral_images(srcimg, create_integral_image(w, h))}} : TRUE

\* C3: for a fixed source and radius the destination is the same for every worker
\* count and every interleaving, equal to the result with one worker (gaussian_blur
\* and apply_kuwahara_filter).  The one-worker run compared with is the one whose reads
\* past the end of a buffer, if it makes any, find zero bytes.
WorkerCountDeterminism ==
    pc = "done" =>
      img["dst"] = IF operation = "blur" THEN OneWorkerBlur(img["src"], radius, 0, nan_cast)
                   ELSE OneWorkerKuwahara(img["src"], radius)

\* the half of C3 the code keeps: apply_kuwahara_filter, and gaussian_blur on every
\* call that reads no byte past the end of a buffer
WorkerCountDeterminismInBounds ==
    (pc = "done" /\ (operation = "kuwahara" \/ (Width >= 2 * radius /\ Height >= 2 * radius))) =>
      img["dst"] = IF operation = "blur" THEN OneWorkerBlur(img["src"], radius, 0, nan_cast)
                   ELSE OneWorkerKuwahara(img["src"], radius)

\* ------------------------------------------------------------ C4
\* C4: in gaussian_blur the first transpose starts only after every phase-1 worker has
\* finished, no phase-2 worker starts before that transpose has completed, the final
\* transpose starts only after every phase-2 worker has finished, and no step reads a
\* buffer while a worker of the preceding phase can still write it.
BlurPhaseOrdering ==
    operation = "blur" =>
      /\ \A w \in Slots :
           /\ threads[<<1, w>>].st = "running" => pc \in {"p1_create", "p1_join"}
           /\ threads[<<2, w>>].st = "running" => pc \in {"p2_create", "p2_join"}
      /\ pc = "transpose1" => Created(1) /\ AllExited(1)
      /\ (\E w \in Slots : threads[<<2, w>>].st # "none") =>
           /\ Created(1) /\ AllExited(1)
           /\ img["temp2"] = transpose_image(img["temp1"], MallocImage(Height, Width))
      /\ pc = "transpose2" => Created(2) /\ AllExited(2)

\* the final transpose is about to start after two phases of several workers
BlurPhaseOrderingWitness ==
    /\ operation = "blur"
    /\ pc = "transpose2"
    /\ num_workers >= 2
    /\ Height >= 2
    /\ AllExited(1) /\ AllExited(2)

\* ------------------------------------------------------------ C5
\* C5: in apply_kuwahara_filter the summed-area table is completely built before the
\* first worker is created, no cell is written after that, and the table is released
\* only after every worker has been joined; every worker read sees the final value.
TableBuiltBeforeWorkers ==
    operation = "kuwahara" =>
      /\ (\E w \in Slots : threads[<<1, w>>].st # "none") =>
           /\ pc \notin {"main", "k_build"}
           /\ integral = build_integral_images(img["src"], create_integral_image(Width, Height))
      /\ \A w \in Slots :
           /\ threads[<<1, w>>].st = "running" => heap["integral"] = "live"
           /\ \A loc \in threads[<<1, w>>].rd :
                loc[1] = "integral" => loc[2] \in DOMAIN integral.sum
      /\ heap["integral"] = "freed" => Created(1) /\ AllExited(1) /\ AllJoined(1)

\* the table has been released after several workers read it
TableBuiltBeforeWorkersWitness ==
    /\ operation = "kuwahara"
    /\ pc = "done"
    /\ num_workers >= 2
    /\ heap["integral"] = "freed"
    /\ \A w \in Workers : threads[<<1, w>>].rd # {}

\* ------------------------------------------------------------ C6
\* C6: a filter call never returns while a worker it spawned is still running: at the
\* return every spawned worker of every phase has terminated and been joined.
ReturnsAfterJoin ==
    pc = "done" =>
      /\ \A p \in Phases, w \in Slots :
           threads[<<p, w>>].st # "none" =>
             threads[<<p, w>>].st = "exited" /\ threads[<<p, w>>].joined
      /\ \A p \in PhasesOf(operation) : Created(p)

\* a blur with three workers has returned
ReturnsAfterJoinWitness ==
    /\ pc = "done"
    /\ operation = "blur"
    /\ num_workers = 3
    /\ AllJoined(1) /\ AllJoined(2)

\* ------------------------------------------------------------ C7
\* C7: under fair scheduling of the threads, for radius >= 0, workers >= 1 and a finite
\* image, every worker terminates, every join completes and the filter call returns.
FilterTerminates ==
    <>(/\ pc = "done"
       /\ \A p \in PhasesOf(operation) : Created(p) /\ AllExited(p) /\ AllJoined(p))

\* a Kuwahara call with more workers than rows (some ranges empty) has returned
FilterTerminatesWitness ==
    /\ pc = "done"
    /\ operation = "kuwahara"
    /\ radius = 0
    /\ num_workers = 3
    /\ Height = 2
    /\ AllExited(1) /\ AllJoined(1)

\* ------------------------------------------------------------ C8
\* C8: in blur_horizontal, for every radius >= 0, width >= 1, row y, column x and tap k
\* the source byte sampled is column clamp(x + k - radius, 0, width - 1) of the same
\* row y: never a different row, never past the edge.
ClampToEdge ==
    \A p \in Phases, w \in Slots :
      \A tp \in threads[<<p, w>>].taps :
        tp.idx = SrcIdx(tp.y,
                        Clamp(tp.x + tp.k - radius, 0, img[threads[<<p, w>>].src].width - 1),
                        tp.ch, img[threads[<<p, w>>].src].width)

\* what the code keeps of C8: the clamp holds on every row at least 2*radius wide
ClampToEdgeWideRows ==
    \A p \in Phases, w \in Slots :
      \A tp \in threads[<<p, w>>].taps :
        img[threads[<<p, w>>].src].width >= 2 * radius =>
          tp.idx = SrcIdx(tp.y,
                          Clamp(tp.x + tp.k - radius, 0, img[threads[<<p, w>>].src].width - 1),
                          tp.ch, img[threads[<<p, w>>].src].width)

\* ------------------------------------------------------------ C9
\* C9: transpose_image writes dest[x, y, ch] = source[y, x, ch] for every y, x, ch,
\* dest being source.height wide and source.width high; transposing the result again
\* yields the original buffer, square or not.
TransposeCorrect ==
    operation = "blur" =>
      /\ pc \in {"p2_create", "p2_join", "transpose2", "cleanup", "done"} =>
           /\ \A y \in 0..(Height - 1), x \in 0..(Width - 1), ch \in 0..3 :
                PixelAt(img["temp2"], x, y, ch) = PixelAt(img["temp1"], y, x, ch)
           /\ transpose_image(img["temp2"], MallocImage(Width, Height)) = img["temp1"]
      /\ pc \in {"cleanup", "done"} =>
           /\ \A y \in 0..(Height - 1), x \in 0..(Width - 1), ch \in 0..3 :
                PixelAt(img["dst"], y, x, ch) = PixelAt(img["temp3"], x, y, ch)
           /\ transpose_image(img["dst"], MallocImage(Height, Width)) = img["temp3"]

\* a blur of a non-square, non-uniform image has done both transposes
TransposeCorrectWitness ==
    /\ operation = "blur"
    /\ pc = "done"
    /\ Width = 3 /\ Height = 2
    /\ radius = 1
    /\ \E a, b \in DOMAIN img["temp1"].data : img["temp1"].data[a] # img["temp1"].data[b]
    /\ img["temp2"].width = 2 /\ img["temp2"].height = 3

\* ------------------------------------------------------------ C10
\* quadrant q attains the minimum aggregate variance and no earlier quadrant does
IsFirstMinimum(table, x, y, r, q) ==
    /\ \A q2 \in 1..4 :
         RatLeq(QuadrantStats(table, x, y, r, q).total_variance,
                QuadrantStats(table, x, y, r, q2).total_variance)
    /\ \A q2 \in 1..(q - 1) :
         RatLess(QuadrantStats(table, x, y, r, q).total_variance,
                 QuadrantStats(table, x, y, r, q2).total_variance)

AllFourTie(table, x, y, r) ==
    \A q, q2 \in 1..4 :
      RatLeq(QuadrantStats(table, x, y, r, q).total_variance,
             QuadrantStats(table, x, y, r, q2).total_variance)

\* C10: kuwahara_filter_pixel evaluates NW, NE, SW, SE in that order and replaces the
\* best only on a strictly lower aggregate variance: the quadrant selected is the first
\* one that attains the minimum, NW whenever all four tie, and the pixel stored is its
\* mean.
FirstMinimumQuadrant ==
    (operation = "kuwahara" /\ pc = "done") =>
      \A y \in 0..(Height - 1), x \in 0..(Width - 1) :
        \E sel \in {SelectQuadrant(integral, x, y, radius).selected} :
          /\ sel \in 1..4
          /\ IsFirstMinimum(integral, x, y, radius, sel)
          /\ AllFourTie(integral, x, y, radius) => sel = 1
          /\ \A ch \in 0..2 :
               PixelAt(img["dst"], y, x, ch)
                 = MeanToByte(QuadrantStats(integral, x, y, radius, sel).mean[ch])

\* a Kuwahara call has returned on a non-uniform image where some pixel has two
\* different quadrants tied at the minimum and some pixel selects a quadrant after NW
FirstMinimumQuadrantWitness ==
    /\ operation = "kuwahara"
    /\ pc = "done"
    /\ radius >= 1
    /\ \E a, b \in 0..(Width * Height - 1) : img["src"].data[a * 4] # img["src"].data[b * 4]
    /\ \E y \in 0..(Height - 1), x \in 0..(Width - 1) :
         \E q \in 1..4, q2 \in 1..4 :
           /\ q < q2
           /\ IsFirstMinimum(integral, x, y, radius, q)
           /\ RatLeq(QuadrantStats(integral, x, y, radius, q2).total_variance,
                     QuadrantStats(integral, x, y, radius, q).total_variance)
           /\ Quadrants(x, y, radius)[q] # Quadrants(x, y, radius)[q2]
    /\ \E y \in 0..(Height - 1), x \in 0..(Width - 1) :
         SelectQuadrant(integral, x, y, radius).selected > 1

\* ------------------------------------------------------------ C11
\* the image with every alpha byte replaced by a
WithAlpha(image, a) ==
    [image EXCEPT !.data = [idx \in DOMAIN image.data |-> IF idx % 4 = 3 THEN a ELSE image.data[idx]]]

\* C11: after apply_kuwahara_filter returns, the destination alpha byte of every pixel
\* equals the source alpha byte of that pixel, for every radius and worker count, and
\* alpha never enters the summed-area table: the table is the one built from the source
\* with any other alpha.
AlphaPassesThrough ==
    (operation = "kuwahara" /\ pc = "done") =>
      /\ \A y \in 0..(Height - 1), x \in 0..(Width - 1) :
           PixelAt(img["dst"], y, x, 3) = PixelAt(img["src"], y, x, 3)
      /\ \A a \in {0, 255} :
           integral = build_integral_images(WithAlpha(img["src"], a),
                                            create_integral_image(Width, Height))
      /\ DOMAIN integral.sum = 0..((Width + 1) * (Height + 1) * 3 - 1)

\* a Kuwahara call with several workers has returned on an image whose alpha bytes
\* differ from pixel to pixel and from the colour written beside them
AlphaPassesThroughWitness ==
    /\ operation = "kuwahara"
    /\ pc = "done"
    /\ radius >= 1
    /\ num_workers >= 2
    /\ \E a, b \in 0..(Width * Height - 1) : img["src"].data[a * 4 + 3] # img["src"].data[b * 4 + 3]
    /\ \E a \in 0..(Width * Height - 1) : img["dst"].data[a * 4 + 3] # img["dst"].data[a * 4 + 2]

\* ------------------------------------------------------------ C12
\* every pixel of the image has the same (R, G, B, A)
IsUniform(image) ==
    \A a \in 0..(image.width * image.height - 1), ch \in 0..3 : image.data[a * 4 + ch] = image.data[ch]

\* the pixel kuwahara_filter_pixel was applied to by the sequential specification
FilteredX == i % Width
FilteredY == i \div Width

\* every quadrant of the pixel (x, y) has variance 0 and the constant colour as its mean
QuadrantsAreFlat(x, y) ==
    \A q \in 1..4, ch \in 0..2 :
      \E s \in {QuadrantStats(integral, x, y, radius, q)} :
        /\ s.variance[ch].num = 0
        /\ s.mean[ch].num = img["src"].data[ch] * s.mean[ch].den

\* C12: on an image whose pixels all have the same (R, G, B, A), for every radius,
\* worker count and image size, apply_kuwahara_filter leaves a destination identical
\* to the source, every quadrant (clipped at a border or not) having variance 0 and the
\* constant colour as its mean.
UniformImageInvariance ==
    (operation = "kuwahara" /\ IsUniform(img["src"])) =>
      /\ pc = "done" =>
           /\ img["dst"].data = img["src"].data
           /\ \A y \in 0..(Height - 1), x \in 0..(Width - 1) : QuadrantsAreFlat(x, y)
      /\ pc = "k_pixel" =>
           /\ \A ch \in 0..3 :
                PixelAt(img["dst"], FilteredY, FilteredX, ch) = PixelAt(img["src"], FilteredY, FilteredX, ch)
           /\ QuadrantsAreFlat(FilteredX, FilteredY)

\* what the code keeps of C12 on every image the model filters: the destination pixels
\* written are those of the source
UniformImageDestination ==
    (operation = "kuwahara" /\ IsUniform(img["src"])) =>
      /\ pc = "done" => img["dst"].data = img["src"].data
      /\ pc = "k_pixel" =>
           \A ch \in 0..3 :
             PixelAt(img["dst"], FilteredY, FilteredX, ch) = PixelAt(img["src"], FilteredY, FilteredX, ch)

\* and all of C12 while the largest sum of squares of the table stays below 2^24
UniformImageInvarianceExactTable ==
    Width * Height * 255 * 255 < FloatMantissa => UniformImageInvariance

\* ------------------------------------------------------------ C13
\* the direct sum of v^power over the pixels of channel ch in the rectangle
\* [x1, x2] x [y1, y2] of the image
DirectSum(image, x1, y1, x2, y2, ch, power) ==
    SumSeq([j \in 1..((x2 - x1 + 1) * (y2 - y1 + 1)) |->
              PixelAt(image, y1 + ((j - 1) \div (x2 - x1 + 1)), x1 + ((j - 1) % (x2 - x1 + 1)), ch) ^ power])

\* get_region_stats on the rectangle agrees with direct summation over the rectangle
\* clamped to the image, which is not empty and has area pixels
RegionIsExact(x1, y1, x2, y2, ch) ==
    \E st \in {get_region_stats(integral, x1, y1, x2, y2, ch)} :
      \E cx1 \in {Clamp(x1, 0, Width - 1)}, cy1 \in {Clamp(y1, 0, Height - 1)},
         cx2 \in {Clamp(x2, 0, Width - 1)}, cy2 \in {Clamp(y2, 0, Height - 1)} :
        /\ cx1 <= cx2 /\ cy1 <= cy2
        /\ st.area = (cx2 - cx1 + 1) * (cy2 - cy1 + 1)
        /\ st.sum = DirectSum(img["src"], cx1, cy1, cx2, cy2, ch, 1)
        /\ st.sum_sq = DirectSum(img["src"], cx1, cy1, cx2, cy2, ch, 2)

\* the four rectangles kuwahara_filter_pixel passes for the pixel (x, y), every channel
PixelRegionsAreExact(x, y) ==
    \A q \in 1..4, ch \in 0..2 :
      \E quad \in {Quadrants(x, y, radius)[q]} : RegionIsExact(quad[1], quad[2], quad[3], quad[4], ch)

\* C13: after build_integral_images, for every channel and every rectangle passed by
\* kuwahara_filter_pixel (interior or clipped at a border), the sum and the sum of
\* squares get_region_stats obtains from the table equal the direct sums over the
\* rectangle clamped to the image, the clamped rectangle is not empty and the area
\* used as divisor is its pixel count.
TableSumsExact ==
    operation = "kuwahara" =>
      /\ pc = "done" => \A y \in 0..(Height - 1), x \in 0..(Width - 1) : PixelRegionsAreExact(x, y)
      /\ pc = "k_pixel" => PixelRegionsAreExact(FilteredX, FilteredY)

\* what the code keeps of C13: the sums are exact while the largest sum of squares of
\* the table stays below 2^24
TableSumsExactBelowMantissa ==
    Width * Height * 255 * 255 < FloatMantissa => TableSumsExact

\* ------------------------------------------------------------ C14
\* phase p has a thread that was created and is not yet joined
InPhase(p) == \E w \in Slots : threads[<<p, w>>].st # "none" /\ ~threads[<<p, w>>].joined

\* C14: during a filter call no step and no worker writes the caller's source image,
\* and during a parallel phase no worker writes the phase's inputs: the source is
\* unchanged when the call returns, and the phase's source buffer, the kernel and the
\* summed-area table are unchanged from the start of the phase to its join.
InputsUnchanged ==
    [][/\ img'["src"] = img["src"]
       /\ \A p \in Phases :
            InPhase(p) =>
              /\ kernel' = kernel
              /\ integral' = integral
              /\ \A w \in Slots :
                   threads[<<p, w>>].st # "none" =>
                     /\ img'[threads[<<p, w>>].src] = img[threads[<<p, w>>].src]
                     /\ \A loc \in threads'[<<p, w>>].wr :
                          loc[1] \notin {"src", "kernel", "integral", threads[<<p, w>>].src}]_vars

\* a blur with several workers has returned leaving a destination that differs from
\* the source
InputsUnchangedWitness ==
    /\ operation = "blur"
    /\ pc = "done"
    /\ num_workers >= 2
    /\ radius >= 1
    /\ Height >= 2 /\ Width >= 2
    /\ img["dst"].data # img["src"].data
    /\ \A w \in Workers : threads[<<1, w>>].wr # {} /\ threads[<<2, w>>].wr # {}

\* ------------------------------------------------------------ C15
\* radius < 0, workers <= 0, or more workers than a phase of the call has rows
InvalidParameter ==
    \/ radius < 0
    \/ num_workers <= 0
    \/ \E p \in PhasesOf(operation) : num_workers > TotalRows(p)

\* some range handed to a thread of a phase is empty
EmptyPartition ==
    \E p \in Phases, w \in Slots :
      threads[<<p, w>>].st # "none" /\ ~(threads[<<p, w>>].start_row < threads[<<p, w>>].end_row)

\* C15: a filter call with an invalid parameter is rejected before any worker thread
\* is spawned and before any destination byte is written, and never runs a phase
\* with empty partitions.
InvalidParameterRejected ==
    InvalidParameter =>
      /\ \A p \in Phases, w \in Slots : threads[<<p, w>>].st = "none"
      /\ img["dst"] = MallocImage(Width, Height)
      /\ ~EmptyPartition
      /\ pc # "done"

\* what the code does instead: the call with more workers than rows runs to its
\* return, some of its threads having been handed an empty range
InvalidParameterAccepted ==
    (InvalidParameter /\ pc = "done") =>
      /\ EmptyPartition
      /\ \A p \in PhasesOf(operation) : Created(p) /\ AllJoined(p)
      /\ \A idx \in DOMAIN img["dst"].data : img["dst"].data[idx] # Uninit

\* ------------------------------------------------------------ C16
\* C16: if creating a worker thread fails during a phase, the filter call treats it as
\* fatal: it does not continue the phase with fewer workers than requested, does not
\* join a thread that was never created, and does not return a destination in which
\* the rows of the failed worker were never written.
CreationFailureIsFatal ==
    \A p \in Phases, w \in Slots :
      threads[<<p, w>>].st = "failed" =>
        /\ pc \notin {JoinPc(p), AfterJoinPc(p)}
        /\ ~threads[<<p, w>>].joined
        /\ pc # "done"

\* what the code does instead: the call can return with a worker never created, the
\* rows of its range never written by anyone
CreationFailureSilent ==
    pc = "done" =>
      \A p \in Phases, w \in Slots :
        threads[<<p, w>>].st = "failed" =>
          \A w2 \in Slots :
            \A loc \in threads[<<p, w2>>].wr :
              loc[2] \div (img[loc[1]].width * 4)
                \notin Rows(threads[<<p, w>>].start_row, threads[<<p, w>>].end_row)

\* ------------------------------------------------------------ C17
\* the temporaries the call of this operation allocates
TemporariesOf(op) ==
    IF op = "blur" THEN {"temp1", "temp2", "temp3", "kernel", "threads", "contexts"}
    ELSE {"threads", "contexts", "integral"}

\* the temporaries a worker refers to through its context
ReferencedBy(t) ==
    ({t.src, t.dst} \cap Temporaries)
      \cup {"threads", "contexts"}
      \cup (IF operation = "blur" THEN {"kernel"} ELSE {"integral"})

\* C17: every temporary of a filter call (temp1, temp2, temp3, the kernel, the thread
\* and context arrays, the summed-area table) is allocated inside the call, released
\* exactly once before the call returns, never read or written after its release and
\* never released while a worker that references it is still running.
TemporariesOwned ==
    /\ pc = "main" => \A t \in Temporaries : heap[t] = "none"
    /\ \A t \in Temporaries : heap[t] \in {"none", "live", "freed"}
    /\ \A t \in Temporaries : heap[t] # "none" => t \in TemporariesOf(operation)
    /\ pc = "done" => \A t \in TemporariesOf(operation) : heap[t] = "freed"
    /\ \A t \in Temporaries :
         heap[t] = "freed" =>
           /\ pc = "done"
           /\ \A p \in Phases, w \in Slots : threads[<<p, w>>].st \in {"none", "exited"}
    /\ \A p \in Phases, w \in Slots :
         threads[<<p, w>>].st = "running" =>
           \A t \in ReferencedBy(threads[<<p, w>>]) : heap[t] = "live"
    /\ pc \in {"transpose1", "p2_create", "p2_join"} => heap["temp1"] = "live" /\ heap["temp2"] = "live"
    /\ pc = "transpose2" => heap["temp3"] = "live"

\* a blur with several workers has returned, all six temporaries released
TemporariesOwnedWitness ==
    /\ operation = "blur"
    /\ pc = "done"
    /\ num_workers >= 2
    /\ \A t \in TemporariesOf("blur") : heap[t] = "freed"
    /\ heap["integral"] = "none"
    /\ \A w \in Workers : threads[<<2, w>>].joined

\* ------------------------------------------------------------ C18
\* the rounding a kernel of this radius may carry, in units of 1/KScale: each of the
\* 2*radius+1 divisions by the sum loses less than one unit
KernelEpsilon(r) == 2 * r + 1

\* the weights sum to 1.0 within the rounding of the divisions
SumsToOne(k, r) ==
    /\ SumSeq(k) <= KScale + KernelEpsilon(r)
    /\ SumSeq(k) >= KScale - KernelEpsilon(r)

\* C18: generate_gaussian_kernel(radius) returns 2*radius + 1 weights and for every
\* radius >= 1 the weights sum to 1.0 within floating epsilon, each weight being
\* exp(-x^2 / (2*sigma^2)) with sigma = radius/3 divided by the sum of all of them.
KernelNormalised ==
    (operation = "blur" /\ pc # "main") =>
      /\ Len(kernel) = 2 * radius + 1
      /\ kernel = generate_gaussian_kernel(radius)
      /\ radius >= 1 =>
           /\ SumsToOne(kernel, radius)
           /\ \A j \in 1..Len(kernel) :
                /\ kernel[j] >= 0
                /\ kernel[j] = kernel[Len(kernel) + 1 - j]
                /\ kernel[j] <= kernel[radius + 1]
                /\ kernel[j] = (GaussWeight((j - 1) - radius, radius) * KScale)
                                 \div SumSeq([n \in 1..Len(kernel) |-> GaussWeight((n - 1) - radius, radius)])

\* a blur of the largest radius holds its kernel: five weights, the centre the
\* largest, its neighbours between the centre and the outermost
KernelNormalisedWitness ==
    /\ operation = "blur"
    /\ pc = "p1_join"
    /\ radius = MaxRadius
    /\ Len(kernel) = 2 * MaxRadius + 1
    /\ kernel[radius + 1] > kernel[radius]
    /\ kernel[radius] > kernel[1]
    /\ SumSeq(kernel) > 0

\* ------------------------------------------------------------ C19
\* the threads of phase p created so far, and those of the whole call
SpawnedIn(p) == {w \in Slots : threads[<<p, w>>].st # "none"}
Spawned == {t \in Phases \X Slots : threads[t].st # "none"}
Alive == {t \in Phases \X Slots : threads[t].st = "running"}

\* C19: one filter call spawns exactly workerCount worker threads in total, all of
\* them created inside the call and none surviving it, for apply_kuwahara_filter and
\* for gaussian_blur.
SpawnsWorkerCountInTotal ==
    /\ pc = "main" => Spawned = {}
    /\ pc = "done" =>
         /\ Cardinality(Spawned) = num_workers
         /\ \A t \in Spawned : threads[t].st = "exited" /\ threads[t].joined

\* C19 as the code has it: every parallel phase spawns exactly workerCount threads,
\* created inside the call and joined before the next phase starts, so that never more
\* than workerCount are alive and none survives the call; apply_kuwahara_filter spawns
\* workerCount threads in total, gaussian_blur 2 * workerCount.
SpawnsWorkerCountPerPhase ==
    /\ pc = "main" => Spawned = {}
    /\ Cardinality(Alive) <= num_workers
    /\ \A p \in Phases \ PhasesOf(operation) : SpawnedIn(p) = {}
    /\ \A p \in PhasesOf(operation) :
         /\ SpawnedIn(p) \subseteq Workers
         /\ pc \in {JoinPc(p), AfterJoinPc(p)} => SpawnedIn(p) = Workers
    /\ SpawnedIn(2) # {} => SpawnedIn(1) = Workers /\ AllJoined(1)
    /\ pc = "done" =>
         /\ Cardinality(Spawned) = (IF operation = "blur" THEN 2 * num_workers ELSE num_workers)
         /\ \A t \in Spawned : threads[t].st = "exited" /\ threads[t].joined

\* a blur with three workers has returned after spawning six threads
SpawnsWorkerCountPerPhaseWitness ==
    /\ operation = "blur"
    /\ pc = "done"
    /\ num_workers = 3
    /\ Cardinality(Spawned) = 6
    /\ Alive = {}

\* ------------------------------------------------------------ C20
\* the destination indices of the pixels (y, x, ch) of row y, x in [0, width), ch in [0, 4)
RowIndices(image, y) == {(y * image.width + x) * 4 + ch : x \in 0..(image.width - 1), ch \in 0..3}

\* the stores ws hit every index of the set exactly once and no other index
StoresEachOnce(ws, indices) ==
    /\ {ws[j][1] : j \in 1..Len(ws)} = indices
    /\ Len(ws) = Cardinality(indices)

\* C20: one call of blur_horizontal writes every destination pixel (y, x, ch) with y in
\* [start_row, end_row), x in [0, width), ch in [0, 4) exactly once and nothing else,
\* for every radius >= 0 and width >= 1: the left-edge, middle and right-edge loops
\* partition [0, width), also when width < 2*radius or width <= radius.
BlurWritesEachPixelOnce ==
    operation = "blur" =>
      \A p \in Phases, w \in Slots :
        \E t \in {threads[<<p, w>>]} :
          t.st # "none" =>
            /\ t.wr = {<<t.dst, idx>> : idx \in UNION {RowIndices(img[t.dst], y) : y \in Rows(t.start_row, t.y)}}
            /\ t.st = "exited" => t.y = Max(t.end_row, t.start_row)
            /\ t.y < t.end_row =>
                 StoresEachOnce(RowWrites(img[t.src], img[t.dst], kernel, radius, t.y, 0, nan_cast),
                                RowIndices(img[t.dst], t.y))
            /\ \A x \in 0..(img[t.src].width - 1) :
                 Cardinality({j \in 1..Len(RowSchedule(img[t.src].width, radius)) :
                                RowSchedule(img[t.src].width, radius)[j][2] = x}) = 1

\* blur_horizontal has finished on rows narrower than 2*radius but wider than radius,
\* and (in the other phase) on rows no wider than radius
BlurWritesEachPixelOnceWitness ==
    /\ operation = "blur"
    /\ pc = "done"
    /\ radius = 2
    /\ Width = 3 /\ Height = 2
    /\ num_workers = 2
    /\ \A w \in Workers : threads[<<2, w>>].st = "exited" /\ threads[<<2, w>>].wr # {}
    /\ threads[<<1, 1>>].wr # {}

\* ------------------------------------------------------------ C21
\* the valid indices of a buffer: [0, width*height*4) of an image,
\* [0, (width+1)*(height+1)*3) of the table
BufferOf(name) == IF name = "integral" THEN DOMAIN integral.sum ELSE DOMAIN img[name].data

\* every index transpose_image(srcimg, dstimg) loads and stores is inside its buffer
TransposeInBounds(srcimg, dstimg) ==
    \A y \in 0..(srcimg.height - 1), x \in 0..(srcimg.width - 1), ch \in 0..3 :
      /\ TransposeSrcIdx(y, x, ch, srcimg) \in DOMAIN srcimg.data
      /\ TransposeDstIdx(y, x, ch, srcimg) \in DOMAIN dstimg.data

\* every index build_integral_images(srcimg, table) loads and stores is inside its buffer
BuildInBounds(srcimg, table) ==
    \A y \in 1..srcimg.height, x \in 1..srcimg.width, ch \in 0..2 :
      /\ ((y - 1) * srcimg.width + (x - 1)) * 4 + ch \in DOMAIN srcimg.data
      /\ \A c \in {SatIdx(y, x, ch, table.width + 1), SatIdx(y - 1, x, ch, table.width + 1),
                   SatIdx(y, x - 1, ch, table.width + 1), SatIdx(y - 1, x - 1, ch, table.width + 1)} :
           c \in DOMAIN table.sum /\ c \in DOMAIN table.sum_sq

\* the stores of the workers, the transposes and the table accesses stay inside their buffers
WritesTransposeTableInBounds ==
    /\ \A p \in Phases, w \in Slots :
         /\ \A a \in threads[<<p, w>>].wr : a[2] \in BufferOf(a[1])
         /\ \A a \in threads[<<p, w>>].rd : a[1] = "integral" => a[2] \in BufferOf("integral")
    /\ pc = "transpose1" => TransposeInBounds(img["temp1"], img["temp2"])
    /\ pc = "transpose2" => TransposeInBounds(img["temp3"], img["dst"])
    /\ pc = "k_build" => BuildInBounds(img["src"], integral)

\* C21: for every width >= 1, height >= 1, radius >= 0 and workers >= 1, every index a
\* filter call reads or writes lies inside the buffer it indexes: blur_horizontal and
\* transpose_image stay in [0, width*height*4) of source and destination,
\* build_integral_images and get_region_stats in [0, (width+1)*(height+1)*3) of the table.
IndicesInBounds ==
    /\ WritesTransposeTableInBounds
    /\ \A p \in Phases, w \in Slots :
         \A a \in threads[<<p, w>>].rd : a[2] \in BufferOf(a[1])

\* what the code keeps of C21: the loads of blur_horizontal stay inside the source
\* on every row at least 2*radius wide; the other accesses always do
IndicesInBoundsWideRows ==
    /\ WritesTransposeTableInBounds
    /\ \A p \in Phases, w \in Slots :
         \E t \in {threads[<<p, w>>]} :
           (operation = "kuwahara" \/ (t.st # "none" /\ img[t.src].width >= 2 * radius)) =>
             \A a \in t.rd : a[2] \in BufferOf(a[1])

\* a blur worker has loaded a byte past the end of a source narrower than 2*radius
BlurLoadsPastEnd ==
    /\ operation = "blur"
    /\ \E p \in Phases, w \in Slots :
         \E t \in {threads[<<p, w>>]} :
           /\ t.st # "none"
           /\ img[t.src].width < 2 * radius
           /\ \E a \in t.rd : a[1] = t.src /\ a[2] >= img[t.src].width * img[t.src].height * 4

\* ------------------------------------------------------------ monte_carlo.c
\* unsigned int: 32 bits, kept as two 16-bit halves
Seed(hi, lo) == [hi |-> hi, lo |-> lo]

\* *seed = *seed * 1664525u + 1013904223u;   (mod 2^32)
\* 1664525 = 25 * 2^16 + 26125 and 1013904223 = 15470 * 2^16 + 62303
lcg_step(seed) ==
    LET t0 == (seed.lo * 26125) + 62303
        t1 == ((seed.hi * 26125) % 65536) + (seed.lo * 25) + 15470 + (t0 \div 65536)
    IN  Seed(t1 % 65536, t0 % 65536)

\* *seed & 0x7FFFFFFFu: the numerator of the double lcg_random returns
Masked(seed) == (seed.hi % 32768) * 65536 + seed.lo

\* a number below 2^31 as three limbs of 11 bits, least significant first
Limbs(v) == <<v % 2048, (v \div 2048) % 2048, v \div 4194304>>

\* the square of a three-limb number: the coefficients of 2048^0 .. 2048^4, not carried
SquareCoeffs(a) ==
    <<a[1] * a[1], 2 * a[1] * a[2], 2 * a[1] * a[3] + a[2] * a[2], 2 * a[2] * a[3], a[3] * a[3]>>

\* the coefficients c carried into n limbs of 11 bits
RECURSIVE Carried(_, _, _)
Carried(c, carry, n) ==
    IF n = 0 THEN << >>
    ELSE CHOOSE r \in
           {<<t % 2048>> \o Carried(IF c = << >> THEN << >> ELSE Tail(c), t \div 2048, n - 1) :
              t \in {(IF c = << >> THEN 0 ELSE Head(c)) + carry}} : TRUE

\* a <= b for two numbers of j limbs
RECURSIVE LeqLimbs(_, _, _)
LeqLimbs(a, b, j) ==
    IF j = 0 THEN TRUE
    ELSE IF a[j] # b[j] THEN a[j] < b[j]
    ELSE LeqLimbs(a, b, j - 1)

\* if (x * x + y * y <= 1.0) with x = xs / 0x7FFFFFFF and y = ys / 0x7FFFFFFF:
\* xs^2 + ys^2 <= 0x7FFFFFFF^2, compared exactly
InsideCircle(xs, ys) ==
    LET sx == SquareCoeffs(Limbs(xs))
        sy == SquareCoeffs(Limbs(ys))
    IN  LeqLimbs(Carried([j \in 1..5 |-> sx[j] + sy[j]], 0, 7),
                 Carried(SquareCoeffs(Limbs(2147483647)), 0, 7), 7)

\* one iteration of the loop of monte_carlo_worker on its ThreadData d
SampleStep(d) ==
    CHOOSE r \in
      {[d EXCEPT !.seed = s2,
                 !.inside = IF InsideCircle(Masked(s1), Masked(s2)) THEN d.inside + 1 ELSE d.inside] :
         s1 \in {lcg_step(d.seed)}, s2 \in {lcg_step(lcg_step(d.seed))}} : TRUE

\* thread_data[i].seed = 12345 + i * 67890;
ThreadSeed(j) == Seed((12345 + j * 67890) \div 65536, (12345 + j * 67890) % 65536)

\* thread_data[i].samples: samples_per_worker, plus remainder for the last worker
ThreadSamples(j, total_samples, n) ==
    (total_samples \div n) + (IF j = n - 1 THEN total_samples % n ELSE 0)

\* &thread_data[i], the argument pthread_create hands to worker i
ThreadArg(j) == j

\* a slot of the threads array of monte_carlo_operation before pthread_create
NoWorker == [st |-> "none", data |-> 0, at |-> "start", k |-> 0, rd |-> {}, wr |-> {},
             joined |-> FALSE, added |-> FALSE]

\* monte_carlo_operation(total_samples, num_workers) is called
MonteInit ==
    /\ operation = "monte_carlo"
    /\ radius = 0
    /\ num_workers \in (0 - 1)..MaxWorkers
    /\ nan_cast = 0
    /\ img = [name \in {"src", "dst", "temp1", "temp2", "temp3"} |-> NoImage]
    /\ kernel = << >>
    /\ integral = NoIntegral
    /\ heap = [t \in Temporaries |-> "none"]
    /\ pc = "mc_call"
    /\ i = 0
    /\ threads = [t \in Phases \X Slots |-> NoThread]
    /\ \E total_samples \in 0..MaxSamples : mc = [NoMonteCarlo EXCEPT !.total_samples = total_samples]

\* if (num_workers <= 0) num_workers = 1; the two malloc calls
MonteCall ==
    /\ pc = "mc_call"
    /\ \E n \in {IF num_workers <= 0 THEN 1 ELSE num_workers} :
         /\ num_workers' = n
         /\ mc' = [mc EXCEPT !.thread_data = [j \in 0..(n - 1) |->
                                                [samples |-> Uninit, seed |-> Uninit, inside |-> Uninit]],
                             !.workers = [j \in 0..(n - 1) |-> NoWorker],
                             !.total_inside = Uninit,
                             !.allocated = {"threads", "thread_data"}]
    /\ pc' = "mc_create"
    /\ i' = 0
    /\ UNCHANGED <<operation, radius, nan_cast, img, kernel, integral, heap, threads>>

MonteCreateCond(j) == j < num_workers
MonteJoinCond(j) == j < num_workers

\* one iteration of the create loop; after the last one, int total_inside = 0;
MonteCreate ==
    /\ pc = "mc_create"
    /\ mc' = [mc EXCEPT !.thread_data[i].samples = ThreadSamples(i, mc.total_samples, num_workers),
                        !.thread_data[i].seed = ThreadSeed(i),
                        !.workers[i] = [NoWorker EXCEPT !.st = "running", !.data = ThreadArg(i)],
                        !.total_inside = IF MonteCreateCond(i + 1) THEN mc.total_inside ELSE 0]
    /\ IF MonteCreateCond(i + 1)
       THEN /\ i' = i + 1
            /\ pc' = pc
       ELSE /\ i' = 0
            /\ pc' = "mc_join"
    /\ UNCHANGED <<operation, radius, num_workers, nan_cast, img, kernel, integral, heap, threads>>

\* monte_carlo_worker: data->inside = 0;
MonteWorkerStart(w) ==
    /\ w \in DOMAIN mc.workers
    /\ mc.workers[w].st = "running"
    /\ mc.workers[w].at = "start"
    /\ \E d \in {mc.workers[w].data} :
         mc' = [mc EXCEPT !.thread_data[d].inside = 0,
                          !.workers[w].at = "loop",
                          !.workers[w].wr = @ \cup {<<d, "inside">>}]
    /\ UNCHANGED <<operation, radius, num_workers, nan_cast, img, kernel, integral, heap, pc, i,
                   threads>>

\* monte_carlo_worker: one iteration of the loop over i < data->samples
MonteSample(w) ==
    /\ w \in DOMAIN mc.workers
    /\ mc.workers[w].st = "running"
    /\ mc.workers[w].at = "loop"
    /\ \E d \in {mc.workers[w].data} :
         /\ mc.workers[w].k < mc.thread_data[d].samples
         /\ mc' = [mc EXCEPT !.thread_data[d] = SampleStep(mc.thread_data[d]),
                             !.workers[w].k = @ + 1,
                             !.workers[w].rd = @ \cup {<<d, "samples">>, <<d, "seed">>, <<d, "inside">>},
                             !.workers[w].wr = @ \cup {<<d, "seed">>}
                                                 \cup (IF SampleStep(mc.thread_data[d]).inside
                                                            # mc.thread_data[d].inside
                                                       THEN {<<d, "inside">>} ELSE {})]
    /\ UNCHANGED <<operation, radius, num_workers, nan_cast, img, kernel, integral, heap, pc, i,
                   threads>>

\* monte_carlo_worker: the loop condition fails, return NULL;
MonteWorkerExit(w) ==
    /\ w \in DOMAIN mc.workers
    /\ mc.workers[w].st = "running"
    /\ mc.workers[w].at = "loop"
    /\ \E d \in {mc.workers[w].data} :
         /\ ~(mc.workers[w].k < mc.thread_data[d].samples)
         /\ mc' = [mc EXCEPT !.workers[w].st = "exited",
                             !.workers[w].rd = @ \cup {<<d, "samples">>}]
    /\ UNCHANGED <<operation, radius, num_workers, nan_cast, img, kernel, integral, heap, pc, i,
                   threads>>

MonteJoinReturnsAtOnce(w) == TRUE

\* pthread_join(threads[i], NULL) returns once thread i has terminated
MonteJoinReturns(w) == mc.workers[w].st = "exited"

\* pthread_join(threads[i], NULL);
MonteJoin ==
    /\ pc = "mc_join"
    /\ MonteJoinReturns(i)
    /\ mc' = [mc EXCEPT !.workers[i].joined = TRUE]
    /\ pc' = "mc_add"
    /\ UNCHANGED <<operation, radius, num_workers, nan_cast, img, kernel, integral, heap, i, threads>>

\* total_inside += thread_data[i].inside;
MonteAdd ==
    /\ pc = "mc_add"
    /\ mc' = [mc EXCEPT !.total_inside = @ + mc.thread_data[i].inside,
                        !.workers[i].added = TRUE]
    /\ IF MonteJoinCond(i + 1)
       THEN /\ i' = i + 1
            /\ pc' = "mc_join"
       ELSE /\ i' = 0
            /\ pc' = "mc_print"
    /\ UNCHANGED <<operation, radius, num_workers, nan_cast, img, kernel, integral, heap, threads>>

\* the printf calls; free(threads); free(thread_data); the call returns
MonteReturn ==
    /\ pc = "mc_print"
    /\ mc' = [mc EXCEPT !.allocated = {}]
    /\ pc' = "done"
    /\ UNCHANGED <<operation, radius, num_workers, nan_cast, img, kernel, integral, heap, i, threads>>

MonteNext ==
    \/ MonteCall
    \/ MonteCreate
    \/ MonteJoin
    \/ MonteAdd
    \/ MonteReturn
    \/ \E w \in Slots : MonteWorkerStart(w) \/ MonteSample(w) \/ MonteWorkerExit(w)

MonteSpec == MonteInit /\ [][MonteNext]_vars

\* ------------------------------------------------------------ C22
\* inside of a ThreadData after n iterations of the worker loop
RECURSIVE AfterSamples(_, _)
AfterSamples(d, n) ==
    IF n = 0 THEN d
    ELSE CHOOSE r \in {AfterSamples(t, n - 1) : t \in {SampleStep(d)}} : TRUE

\* what worker j counts when it runs alone
InsideOf(j, total_samples, n) ==
    AfterSamples([samples |-> ThreadSamples(j, total_samples, n), seed |-> ThreadSeed(j), inside |-> 0],
                 ThreadSamples(j, total_samples, n)).inside

\* every worker of monte_carlo_operation has been created
MonteCreated == pc \in {"mc_join", "mc_add", "mc_print", "done"}

\* C22: in monte_carlo_operation, for every total_samples >= 0 and every num_workers
\* (values <= 0 are replaced by 1), the per-worker sample counts sum to exactly
\* total_samples with the last worker taking the remainder, each worker reads and writes
\* only its own ThreadData, and a worker's inside counter is added to total_inside only
\* after that worker has been joined; so total_inside is the same in every interleaving.
MonteCarloDeterministic ==
    operation = "monte_carlo" /\ pc # "mc_call" =>
      /\ num_workers >= 1
      /\ MonteCreated =>
           /\ SumSeq([j \in 1..num_workers |-> mc.thread_data[j - 1].samples]) = mc.total_samples
           /\ \A j \in 0..(num_workers - 1) :
                mc.thread_data[j].samples
                  = (mc.total_samples \div num_workers)
                    + (IF j = num_workers - 1 THEN mc.total_samples % num_workers ELSE 0)
      /\ \A w \in DOMAIN mc.workers :
           /\ \A a \in mc.workers[w].rd \cup mc.workers[w].wr : a[1] = w
           /\ mc.workers[w].added => mc.workers[w].joined /\ mc.workers[w].st = "exited"
           /\ mc.workers[w].joined => mc.thread_data[w].inside = InsideOf(w, mc.total_samples, num_workers)
      /\ MonteCreated =>
           mc.total_inside
             = SumSeq([j \in 1..num_workers |->
                         IF mc.workers[j - 1].added THEN InsideOf(j - 1, mc.total_samples, num_workers)
                         ELSE 0])

\* a call with more workers than one and a remainder has returned: the last worker took
\* the remainder, every worker drew samples and some sample fell inside the circle
MonteCarloDeterministicWitness ==
    /\ operation = "monte_carlo"
    /\ pc = "done"
    /\ num_workers = 3
    /\ mc.total_samples = 4
    /\ mc.thread_data[2].samples = 2
    /\ \A w \in 0..2 : mc.workers[w].added /\ mc.workers[w].wr # {}
    /\ mc.total_inside > 0

====
